---------------------------- MODULE Spec2Model ----------------------------
(***************************************************************************)
(* pstrs: a paste store (create / get / remove) behind five HTTP handlers, *)
(* with an in-memory backend guarded by one async mutex and a Postgres     *)
(* backend of three single statements, and a syntax highlighter.           *)
(*                                                                         *)
(* Strings are sequences of characters (one-character TLA+ strings); a    *)
(* few fixed texts are kept as one token.  Option<T> is a sequence of      *)
(* length at most one: None is << >>, Some(x) is <<x>>.                    *)
(***************************************************************************)
EXTENDS Naturals, Sequences, FiniteSets, TLC

\* ------------------------------------------------------------------ bounds
\* The id space (Uuid) is cut to 1..MaxIds: a create starts only while an
\* id is left for it.
MaxIds == 2
\* Longest content handed to the highlighter on its own (SpecHighlight).
MaxLen == 3

\* Two request-handling tasks run concurrently; each serves request after
\* request, so the number of calls is unbounded, the overlap is two.
Tasks == {1, 2}
NoTask == 0

Ids == 1 .. MaxIds

None == << >>
Some(x) == <<x>>

\* ----------------------------------------------------------------- inputs
ESC == "ESC"
LF == "\n"

\* Request bodies of the service run.
Contents == { <<"a">>, <<"b", LF>> }

\* Host headers of the service run: a loopback host and a public one.
Hosts == { <<"l","o","c","a","l","h","o","s","t">>, <<"p",".","i","o">> }

\* Language hints: the Rust extension and one no syntax is loaded for.
Langs == { "rs", "zz" }

\* Details of a failed database call (sqlx::Error rendered by Display).
Errors == { "pool timed out", "connection reset" }

Backends == { "mock", "pg" }

\* ------------------------------------------------------------------ state
VARIABLES
    backend,    \* which PasteStore the App holds: "mock" or "pg"
    entries,    \* the HashMap / the pastes table: id -> Option<content>
    lock,       \* holder of MockPasteStore.entries' Mutex, or NoTask
    generated,  \* the ids the generator (Uuid::new_v4, the table default) gave out
    pc,         \* where each task stands in its handler
    req,        \* the request each task serves
    ret,        \* what the store call returned to the handler
    resp,       \* the response the handler gave
    created,    \* history: id -> Option<content given to the create that stored it>
    ncreated,   \* history: number of create calls that stored an entry
    taken,      \* history: id -> number of remove calls that returned its record
    rendered,   \* the last stand-alone call of highlight and its result
    schemed     \* the last stand-alone call of scheme and its result

vars == << backend, entries, lock, generated, pc, req, ret, resp,
           created, ncreated, taken, rendered, schemed >>

\* ------------------------------------------------------------------ Paste
\* paste.rs: struct Paste { id, content }
Paste(id, content) == [id |-> id, content |-> content]

\* error.rs: Result<T> = Result<T, AppError>; val is the Ok payload.
Ok(v) == [ok |-> TRUE, val |-> v, err |-> ""]
Err(e) == [ok |-> FALSE, val |-> None, err |-> e]
NoRet == [ok |-> FALSE, val |-> None, err |-> "-"]

\* ---------------------------------------------------------- id generation
\* Uuid::new_v4() (and the table's id default): a random 122-bit value.  A
\* repeat has probability 2^-122 per pair; the generator is modelled as never
\* repeating a value it gave out, which is the guarantee the code relies on.
NewV4Reuse(gen, live) == Ids \ live
NewV4(gen, live) == Ids \ gen

\* ------------------------------------------------- MockPasteStore (tests.rs)
\* get: lock.get(&id).map(|c| Paste { id, content: c.clone() })
MockGetDefault(m, id) == Ok(Some(Paste(id, IF m[id] = None THEN << >> ELSE m[id][1])))
MockPasteStore_get(m, id) ==
    Ok(IF m[id] = None THEN None ELSE Some(Paste(id, m[id][1])))

\* create: lock.insert(id, content.clone()); Ok(Paste { id, content })
MockCreateNoInsert(m, id, content) ==
    [entries |-> m, ret |-> Ok(Some(Paste(id, content)))]
MockCreateFixedKey(m, id, content) ==
    [entries |-> [m EXCEPT ![1] = Some(content)],
     ret |-> Ok(Some(Paste(1, content)))]
MockPasteStore_create(m, id, content) ==
    [entries |-> [m EXCEPT ![id] = Some(content)],
     ret |-> Ok(Some(Paste(id, content)))]

\* remove: lock.remove(&id).map(|c| Paste { id, content: c.clone() })
MockRemoveKeep(m, id) ==
    [entries |-> m,
     ret |-> Ok(IF m[id] = None THEN None ELSE Some(Paste(id, m[id][1])))]
MockRemoveClear(m, id) ==
    [entries |-> IF m[id] = None THEN m ELSE [i \in Ids |-> None],
     ret |-> Ok(IF m[id] = None THEN None ELSE Some(Paste(id, m[id][1])))]
MockRemoveDefault(m, id) ==
    [entries |-> [m EXCEPT ![id] = None],
     ret |-> Ok(IF m[id] = None THEN None ELSE Some(Paste(id, << >>)))]
MockPasteStore_remove(m, id) ==
    [entries |-> [m EXCEPT ![id] = None],
     ret |-> Ok(IF m[id] = None THEN None ELSE Some(Paste(id, m[id][1])))]

\* ----------------------------------------------------------- PgPool (paste.rs)
\* SELECT id, content FROM pastes WHERE id = $1   (fetch_optional)
PgGetPartial(m, id) ==
    Ok(IF m[id] = None THEN None
       ELSE Some(Paste(id, SubSeq(m[id][1], 1, Len(m[id][1]) - 1))))
PgPool_get(m, id) ==
    Ok(IF m[id] = None THEN None ELSE Some(Paste(id, m[id][1])))

\* INSERT INTO pastes(content) VALUES ($1) RETURNING id, content  (fetch_one)
\* id is the row's generated key.
PgPool_create(m, id, content) ==
    [entries |-> [m EXCEPT ![id] = Some(content)],
     ret |-> Ok(Some(Paste(id, content)))]

\* DELETE FROM pastes WHERE id = $1 RETURNING id, content  (fetch_optional)
PgPool_remove(m, id) ==
    [entries |-> [m EXCEPT ![id] = None],
     ret |-> Ok(IF m[id] = None THEN None ELSE Some(Paste(id, m[id][1])))]

\* ------------------------------------------------------------ util.rs
\* str::contains: pat occurs in s as a contiguous run
Contains(s, pat) ==
    \E i \in 0 .. Len(s) :
        /\ i + Len(pat) <= Len(s)
        /\ SubSeq(s, i + 1, i + Len(pat)) = pat

Loopback == <<"1","2","7",".","0",".","0",".","1">>
Localhost == <<"l","o","c","a","l","h","o","s","t">>
Http == <<"h","t","t","p">>
Https == <<"h","t","t","p","s">>

\* util.rs: scheme
SchemeLocalhostOnly(host) == IF Contains(host, Localhost) THEN Http ELSE Https
scheme(host) ==
    IF Contains(host, Loopback) \/ Contains(host, Localhost) THEN Http ELSE Https

\* ------------------------------------------------------------- highlight.rs
\* The loaded tables (SYNTAX_SET, THEME_SET) are read-only data of syntect;
\* they are modelled by the two lookups the code makes into them.
RustSyntax == "Rust"
PlainText == "Plain Text"
OceanDark == "base16-ocean.dark"
DefaultTheme == "default"

\* SYNTAX_SET.find_syntax_by_extension(syntax)
find_syntax_by_extension(ext) ==
    IF ext = "rs" THEN Some(RustSyntax)
    ELSE IF ext = "txt" THEN Some(PlainText) ELSE None

\* SYNTAX_SET.find_syntax_plain_text()
find_syntax_plain_text == PlainText

\* THEME_SET.themes.get(theme).cloned().unwrap_or_else(Theme::default)
ThemeOrDefault(theme) == IF theme = OceanDark THEN OceanDark ELSE DefaultTheme

\* The SGR parameters as_24_bit_terminal_escaped writes for a style's
\* foreground, "38;2;r;g;b", one token per colour.
FgText == "38;2;192;197;206"
FgWord == "38;2;180;142;173"
FgBlack == "38;2;0;0;0"
ColourParams == { FgText, FgWord, FgBlack }

\* The foreground a theme gives a scope: Theme::default() has no settings,
\* so every scope gets the default style (black).
Foreground(theme, scope) ==
    IF theme = DefaultTheme THEN FgBlack
    ELSE IF scope = "word" THEN FgWord ELSE FgText

IsWordChar(c) == c \in { "a", "b", "m" }

\* LinesWithEndings::from(content): the lines, each with its "\n" when it
\* has one; the empty string has no line.
RECURSIVE LinesFrom(_, _, _)
LinesFrom(s, i, cur) ==
    IF i > Len(s) THEN (IF cur = << >> THEN << >> ELSE <<cur>>)
    ELSE IF s[i] = LF THEN <<Append(cur, LF)>> \o LinesFrom(s, i + 1, << >>)
    ELSE LinesFrom(s, i + 1, Append(cur, s[i]))

LinesWithEndings(content) == LinesFrom(content, 1, << >>)

\* HighlightLines::highlight_line on success: the line cut into styled
\* ranges whose texts, in order, are the line.  Plain Text has no scope, so
\* the whole line is one range; the Rust grammar separates words from the
\* rest.
RECURSIVE Ranges(_, _, _, _)
Ranges(theme, line, i, cur) ==
    IF i > Len(line) THEN (IF cur.text = << >> THEN << >> ELSE <<cur>>)
    ELSE LET sc == IF IsWordChar(line[i]) THEN "word" ELSE "other"
             fg == Foreground(theme, sc)
         IN IF cur.text = << >> \/ cur.fg = fg
            THEN Ranges(theme, line, i + 1, [fg |-> fg, text |-> Append(cur.text, line[i])])
            ELSE <<cur>> \o Ranges(theme, line, i + 1, [fg |-> fg, text |-> <<line[i]>>])

highlight_line(syntax, theme, line) ==
    IF syntax = RustSyntax
    THEN Ranges(theme, line, 1, [fg |-> "", text |-> << >>])
    ELSE IF line = << >> THEN << >>
         ELSE << [fg |-> Foreground(theme, "text"), text |-> line] >>

\* as_24_bit_terminal_escaped(ranges, false): "\x1b[38;2;r;g;bm{text}" per range
RECURSIVE escape(_)
escape(ranges) ==
    IF ranges = << >> THEN << >>
    ELSE <<ESC, "[", ranges[1].fg, "m">> \o ranges[1].text \o escape(Tail(ranges))

Reset == <<ESC, "[", "0", "m">>

\* highlight.rs: process_line; failed tells whether highlight_line gave Err
ProcessLineDropOnErr(syntax, theme, line, failed) ==
    IF failed THEN << >> ELSE escape(highlight_line(syntax, theme, line)) \o Reset
process_line(syntax, theme, line, failed) ==
    IF failed THEN line ELSE escape(highlight_line(syntax, theme, line)) \o Reset

RECURSIVE CollectLinesAbort(_, _, _, _, _)
CollectLinesAbort(syntax, theme, lines, i, fails) ==
    IF i > Len(lines) \/ i \in fails THEN << >>
    ELSE process_line(syntax, theme, lines[i], FALSE)
         \o CollectLinesAbort(syntax, theme, lines, i + 1, fails)
RECURSIVE CollectLines(_, _, _, _, _)
CollectLines(syntax, theme, lines, i, fails) ==
    IF i > Len(lines) THEN << >>
    ELSE process_line(syntax, theme, lines[i], i \in fails)
         \o CollectLines(syntax, theme, lines, i + 1, fails)

\* highlight.rs: highlight(content, syntax, theme); fails is the set of line
\* numbers on which highlight_line returns Err in this call.
highlight(content, syntax, theme, fails) ==
    LET syn == IF find_syntax_by_extension(syntax) = None
               THEN find_syntax_plain_text
               ELSE find_syntax_by_extension(syntax)[1]
        th == ThemeOrDefault(theme)
    IN CollectLines(syn, th, LinesWithEndings(content), 1, fails)

\* paste.rs: Paste::to_highlighted
to_highlighted(paste, syntax, theme, fails) ==
    highlight(paste.content, syntax, theme, fails)

\* tests.rs: strip_str, the escape-sequence parser of strip_ansi_escapes
\* (vte) on the characters used here: ESC opens an escape; ESC [ opens a
\* control sequence that runs through its parameter characters to the first
\* other character; any other character after ESC ends the escape; a line
\* feed is kept wherever it stands.
IsParam(c) == c \in ({ "0", ";" } \cup ColourParams)

RECURSIVE StripFrom(_, _, _)
StripFrom(s, i, st) ==
    IF i > Len(s) THEN << >>
    ELSE LET c == s[i] IN
         IF c = ESC THEN StripFrom(s, i + 1, "escape")
         ELSE IF c = LF THEN <<LF>> \o StripFrom(s, i + 1, st)
         ELSE IF st = "ground" THEN <<c>> \o StripFrom(s, i + 1, "ground")
         ELSE IF st = "escape"
              THEN StripFrom(s, i + 1, IF c = "[" THEN "csi" ELSE "ground")
         ELSE StripFrom(s, i + 1, IF IsParam(c) THEN "csi" ELSE "ground")

strip_str(s) == StripFrom(s, 1, "ground")

\* ------------------------------------------------------------------ ext.rs
StatusOK == 200
StatusCreated == 201
StatusNotFound == 404
StatusInternalServerError == 500

Response(status, body) == [status |-> status, body |-> body]

\* String::default() and <&str>::default(): the empty string
DefaultBody == << >>

\* ext.rs: OptionHttpExt::unwrap_or_not_found
UnwrapAlwaysOk(opt) ==
    Response(StatusOK, IF opt = None THEN DefaultBody ELSE opt[1])
unwrap_or_not_found(opt) ==
    IF opt = None THEN Response(StatusNotFound, DefaultBody)
    ELSE Response(StatusOK, opt[1])

\* error.rs: AppError::into_response
IntoResponseNotFound(err) == Response(StatusNotFound, DefaultBody)
into_response(err) ==
    Response(StatusInternalServerError, <<"Something went wrong: ", err>>)

\* -------------------------------------------------------------- handlers.rs
\* Uuid's Display (the hyphenated form), one token per id
UuidDisplay(id) == ToString(id)

\* handlers.rs: upload, from the store's answer on
UploadStatusOk(host, r) ==
    IF r.ok
    THEN Response(StatusOK,
                  scheme(host) \o <<":", "/", "/">> \o host \o <<"/">>
                      \o <<UuidDisplay(r.val[1].id)>>)
    ELSE into_response(r.err)
upload_response(host, r) ==
    IF r.ok
    THEN Response(StatusCreated,
                  scheme(host) \o <<":", "/", "/">> \o host \o <<"/">>
                      \o <<UuidDisplay(r.val[1].id)>>)
    ELSE into_response(r.err)

\* handlers.rs: retrieve, from the store's answer on
retrieve_response(r) ==
    IF r.ok
    THEN unwrap_or_not_found(IF r.val = None THEN None ELSE Some(r.val[1].content))
    ELSE into_response(r.err)

\* handlers.rs: retrieve_highlighted, from the store's answer on
retrieve_highlighted_response(r, lang, fails) ==
    IF r.ok
    THEN unwrap_or_not_found(
             IF r.val = None THEN None
             ELSE Some(to_highlighted(r.val[1], lang, OceanDark, fails)))
    ELSE into_response(r.err)

\* handlers.rs: remove, from the store's answer on
remove_response(r) ==
    IF r.ok
    THEN unwrap_or_not_found(IF r.val = None THEN None ELSE Some(<<"Deleted!">>))
    ELSE into_response(r.err)

\* The path of a URL as http::Uri parses it: what follows the authority.
RECURSIVE FindFrom(_, _, _)
FindFrom(s, pat, i) ==
    IF i + Len(pat) - 1 > Len(s) THEN 0
    ELSE IF SubSeq(s, i, i + Len(pat) - 1) = pat THEN i
    ELSE FindFrom(s, pat, i + 1)

UriPath(url) ==
    LET a == FindFrom(url, <<":", "/", "/">>, 1)
        b == IF a = 0 THEN 0 ELSE FindFrom(url, <<"/">>, a + 3)
    IN IF b = 0 THEN << >> ELSE SubSeq(url, b, Len(url))

\* make_router: "/:id" with Path<Uuid>; the ids a path names (none when the
\* path is no "/<uuid>")
PathIds(path) ==
    { i \in Ids : path = <<"/", UuidDisplay(i)>> }

\* ------------------------------------------------------------ the service
Request(op, id, body, host, lang) ==
    [op |-> op, id |-> id, body |-> body, host |-> host, lang |-> lang]

NoReq == Request("none", 0, << >>, << >>, "")
NoResp == Response(0, << >>)
NoRender ==
    [called |-> FALSE, content |-> << >>, syntax |-> "", theme |-> "",
     fails |-> {}, out |-> << >>, resp |-> NoResp]

NoScheme == [called |-> FALSE, host |-> << >>, out |-> << >>]

Live == { i \in Ids : entries[i] # None }

Min(a, b) == IF a < b THEN a ELSE b

\* App::postgres / the tests' get_client: an empty store behind idle handlers
Init ==
    /\ backend \in Backends
    /\ entries = [i \in Ids |-> None]
    /\ lock = NoTask
    /\ generated = {}
    /\ pc = [t \in Tasks |-> "idle"]
    /\ req = [t \in Tasks |-> NoReq]
    /\ ret = [t \in Tasks |-> NoRet]
    /\ resp = [t \in Tasks |-> NoResp]
    /\ created = [i \in Ids |-> None]
    /\ ncreated = 0
    /\ taken = [i \in Ids |-> 0]
    /\ rendered = NoRender
    /\ schemed = NoScheme

Free(t) == pc[t] \in { "idle", "done" }

\* Where a store call first suspends: the mutex of the mock, the statement
\* of the database.
CallPc == IF backend = "mock" THEN "lock" ELSE "stmt"

Begin(t, r) ==
    /\ req' = [req EXCEPT ![t] = r]
    /\ ret' = [ret EXCEPT ![t] = NoRet]
    /\ resp' = [resp EXCEPT ![t] = NoResp]
    /\ pc' = [pc EXCEPT ![t] = CallPc]

\* The INSERTs not yet run: each will draw an id of its own.
PendingInserts == { t \in Tasks : pc[t] = "stmt" /\ req[t].op = "upload" }

\* POST /: upload calls create.  MockPasteStore::create draws its id
\* (Uuid::new_v4) before it waits for the lock; the database draws the id
\* when the INSERT runs.
upload(t) ==
    /\ Free(t)
    /\ Cardinality(generated) + Cardinality(PendingInserts) < MaxIds
    /\ \E body \in Contents, host \in Hosts :
        IF backend = "mock"
        THEN \E id \in NewV4(generated, Live) :
                /\ Begin(t, Request("upload", id, body, host, ""))
                /\ generated' = generated \cup {id}
        ELSE /\ Begin(t, Request("upload", 0, body, host, ""))
             /\ generated' = generated
    /\ UNCHANGED << backend, entries, lock, created, ncreated, taken, rendered, schemed >>

\* GET /:id
retrieve(t) ==
    /\ Free(t)
    /\ \E id \in Ids : Begin(t, Request("retrieve", id, << >>, << >>, ""))
    /\ UNCHANGED << backend, entries, lock, generated, created,
                    ncreated, taken, rendered, schemed >>

\* GET /:id/:lang
retrieve_highlighted(t) ==
    /\ Free(t)
    /\ \E id \in Ids, lang \in Langs :
        Begin(t, Request("retrieve_highlighted", id, << >>, << >>, lang))
    /\ UNCHANGED << backend, entries, lock, generated, created,
                    ncreated, taken, rendered, schemed >>

\* DELETE /:id
remove(t) ==
    /\ Free(t)
    /\ \E id \in Ids : Begin(t, Request("remove", id, << >>, << >>, ""))
    /\ UNCHANGED << backend, entries, lock, generated, created,
                    ncreated, taken, rendered, schemed >>

LockAcquireFirstOnly(t) ==
    /\ pc[t] = "lock" /\ t = 1
    /\ lock = NoTask
    /\ lock' = t
    /\ pc' = [pc EXCEPT ![t] = "locked"]
    /\ UNCHANGED << backend, entries, generated, req, ret, resp,
                    created, ncreated, taken, rendered, schemed >>
\* self.entries.lock().await completes: the task holds the mutex
LockAcquire(t) ==
    /\ pc[t] = "lock"
    /\ lock = NoTask
    /\ lock' = t
    /\ pc' = [pc EXCEPT ![t] = "locked"]
    /\ UNCHANGED << backend, entries, generated, req, ret, resp,
                    created, ncreated, taken, rendered, schemed >>

\* The store call returns r to its handler.
Return(t, r) ==
    /\ ret' = [ret EXCEPT ![t] = r]
    /\ pc' = [pc EXCEPT ![t] = "respond"]

Stored(id, content) ==
    /\ created' = [created EXCEPT ![id] = Some(content)]
    /\ ncreated' = Min(ncreated + 1, MaxIds + 1)

Removed(id, r) ==
    taken' = [taken EXCEPT ![id] = IF r.val = None THEN @ ELSE Min(@ + 1, 2)]

\* MockPasteStore::create under the lock; the guard drops on return
MockCreate(t) ==
    /\ pc[t] = "locked" /\ lock = t /\ req[t].op = "upload"
    /\ LET r == MockPasteStore_create(entries, req[t].id, req[t].body) IN
        /\ entries' = r.entries
        /\ Return(t, r.ret)
        /\ Stored(r.ret.val[1].id, req[t].body)
    /\ lock' = NoTask
    /\ UNCHANGED << backend, generated, req, resp, taken, rendered, schemed >>

MockGetHold(t) ==
    /\ pc[t] = "locked" /\ lock = t
    /\ req[t].op \in { "retrieve", "retrieve_highlighted" }
    /\ Return(t, MockPasteStore_get(entries, req[t].id))
    /\ lock' = lock
    /\ UNCHANGED << backend, entries, generated, req, resp, created,
                    ncreated, taken, rendered, schemed >>
MockGetTake(t) ==
    /\ pc[t] = "locked" /\ lock = t
    /\ req[t].op \in { "retrieve", "retrieve_highlighted" }
    /\ Return(t, MockPasteStore_get(entries, req[t].id))
    /\ entries' = [entries EXCEPT ![req[t].id] = None]
    /\ lock' = NoTask
    /\ UNCHANGED << backend, generated, req, resp, created,
                    ncreated, taken, rendered, schemed >>
\* MockPasteStore::get under the lock
MockGet(t) ==
    /\ pc[t] = "locked" /\ lock = t
    /\ req[t].op \in { "retrieve", "retrieve_highlighted" }
    /\ Return(t, MockPasteStore_get(entries, req[t].id))
    /\ lock' = NoTask
    /\ UNCHANGED << backend, entries, generated, req, resp, created,
                    ncreated, taken, rendered, schemed >>

\* MockPasteStore::remove under the lock
MockRemove(t) ==
    /\ pc[t] = "locked" /\ lock = t /\ req[t].op = "remove"
    /\ LET r == MockPasteStore_remove(entries, req[t].id) IN
        /\ entries' = r.entries
        /\ Return(t, r.ret)
        /\ Removed(req[t].id, r.ret)
    /\ lock' = NoTask
    /\ UNCHANGED << backend, generated, req, resp, created, ncreated,
                    rendered, schemed >>

\* PgPool::create: the INSERT runs as one statement
PgCreate(t) ==
    /\ pc[t] = "stmt" /\ req[t].op = "upload"
    /\ \E id \in NewV4(generated, Live) :
        LET r == PgPool_create(entries, id, req[t].body) IN
            /\ entries' = r.entries
            /\ Return(t, r.ret)
            /\ Stored(r.ret.val[1].id, req[t].body)
            /\ generated' = generated \cup {id}
    /\ UNCHANGED << backend, lock, req, resp, taken, rendered, schemed >>

\* PgPool::get: the SELECT runs as one statement
PgGet(t) ==
    /\ pc[t] = "stmt"
    /\ req[t].op \in { "retrieve", "retrieve_highlighted" }
    /\ Return(t, PgPool_get(entries, req[t].id))
    /\ UNCHANGED << backend, entries, lock, generated, req, resp,
                    created, ncreated, taken, rendered, schemed >>

\* PgPool::remove: the DELETE runs as one statement
PgRemove(t) ==
    /\ pc[t] = "stmt" /\ req[t].op = "remove"
    /\ LET r == PgPool_remove(entries, req[t].id) IN
        /\ entries' = r.entries
        /\ Return(t, r.ret)
        /\ Removed(req[t].id, r.ret)
    /\ UNCHANGED << backend, lock, generated, req, resp, created,
                    ncreated, rendered, schemed >>

\* .await? on a failed database call: the statement changed nothing
PgFail(t) ==
    /\ pc[t] = "stmt"
    /\ \E e \in Errors : Return(t, Err(e))
    /\ UNCHANGED << backend, entries, lock, generated, req, resp,
                    created, ncreated, taken, rendered, schemed >>

ReplyWipe(t, r) ==
    /\ resp' = [resp EXCEPT ![t] = r]
    /\ req' = [req EXCEPT ![t] = NoReq]
    /\ ret' = [ret EXCEPT ![t] = NoRet]
    /\ pc' = [pc EXCEPT ![t] = "done"]
    /\ entries' = [i \in Ids |-> None]
    /\ UNCHANGED << backend, lock, generated,
                    created, ncreated, taken, rendered, schemed >>
\* The handler returns: its locals (the extracted request, the store's
\* answer) are dropped, the response goes out.
Reply(t, r) ==
    /\ resp' = [resp EXCEPT ![t] = r]
    /\ req' = [req EXCEPT ![t] = NoReq]
    /\ ret' = [ret EXCEPT ![t] = NoRet]
    /\ pc' = [pc EXCEPT ![t] = "done"]
    /\ UNCHANGED << backend, entries, lock, generated,
                    created, ncreated, taken, rendered, schemed >>

\* upload, after create
UploadRespond(t) ==
    /\ pc[t] = "respond" /\ req[t].op = "upload"
    /\ Reply(t, upload_response(req[t].host, ret[t]))

\* retrieve, after get
RetrieveRespond(t) ==
    /\ pc[t] = "respond" /\ req[t].op = "retrieve"
    /\ Reply(t, retrieve_response(ret[t]))

NumLines(r) ==
    IF r.ok /\ r.val # None THEN Len(LinesWithEndings(r.val[1].content)) ELSE 0

\* retrieve_highlighted, after get
HighlightRespond(t) ==
    /\ pc[t] = "respond" /\ req[t].op = "retrieve_highlighted"
    /\ \E fails \in SUBSET (1 .. NumLines(ret[t])) :
        Reply(t, retrieve_highlighted_response(ret[t], req[t].lang, fails))

\* remove, after the store's remove
RemoveRespond(t) ==
    /\ pc[t] = "respond" /\ req[t].op = "remove"
    /\ Reply(t, remove_response(ret[t]))

Next ==
    \E t \in Tasks :
        \/ upload(t)
        \/ retrieve(t)
        \/ retrieve_highlighted(t)
        \/ remove(t)
        \/ LockAcquire(t)
        \/ MockCreate(t)
        \/ MockGet(t)
        \/ MockRemove(t)
        \/ PgCreate(t)
        \/ PgGet(t)
        \/ PgRemove(t)
        \/ PgFail(t)
        \/ UploadRespond(t)
        \/ RetrieveRespond(t)
        \/ HighlightRespond(t)
        \/ RemoveRespond(t)

Spec == Init /\ [][Next]_vars

\* ------------------------------------------------ the in-memory backend
\* MockPasteStore on its own: tasks that call create, get and remove of the
\* PasteStore trait directly, one call after another, concurrently.
InitMock == Init /\ backend = "mock"

\* store.create(content): the id is drawn, then the call waits for the lock
CallCreate(t) ==
    /\ Free(t)
    /\ Cardinality(generated) < MaxIds
    /\ \E body \in Contents, id \in NewV4(generated, Live) :
        /\ Begin(t, Request("upload", id, body, << >>, ""))
        /\ generated' = generated \cup {id}
    /\ UNCHANGED << backend, entries, lock, created, ncreated, taken,
                    rendered, schemed >>

\* store.get(id)
CallGet(t) ==
    /\ Free(t)
    /\ \E id \in Ids : Begin(t, Request("retrieve", id, << >>, << >>, ""))
    /\ UNCHANGED << backend, entries, lock, generated, created,
                    ncreated, taken, rendered, schemed >>

\* store.remove(id)
CallRemove(t) ==
    /\ Free(t)
    /\ \E id \in Ids : Begin(t, Request("remove", id, << >>, << >>, ""))
    /\ UNCHANGED << backend, entries, lock, generated, created,
                    ncreated, taken, rendered, schemed >>

\* The caller takes the call's result and is free for its next call.
CallReturn(t) ==
    /\ pc[t] = "respond"
    /\ pc' = [pc EXCEPT ![t] = "done"]
    /\ req' = [req EXCEPT ![t] = NoReq]
    /\ ret' = [ret EXCEPT ![t] = NoRet]
    /\ UNCHANGED << backend, entries, lock, generated, resp,
                    created, ncreated, taken, rendered, schemed >>

NextMock ==
    \E t \in Tasks :
        \/ CallCreate(t)
        \/ CallGet(t)
        \/ CallRemove(t)
        \/ LockAcquire(t)
        \/ MockCreate(t)
        \/ MockGet(t)
        \/ MockRemove(t)
        \/ CallReturn(t)

\* The runtime polls every task that can run (weak fairness of the step
\* under the lock), and tokio's Mutex hands the lock to its waiters in the
\* order they queued, so a waiter is not passed over for ever (strong
\* fairness of the acquisition).
FairMock ==
    \A t \in Tasks :
        /\ SF_vars(LockAcquire(t))
        /\ WF_vars(MockCreate(t) \/ MockGet(t) \/ MockRemove(t))

SpecMockFair == InitMock /\ [][NextMock]_vars /\ FairMock

\* ------------------------------------------------------------ cancellation
\* The host drops a handler's future at a suspension point of its store
\* call before the call took effect: at lock().await of the mock (a waiter
\* leaves the mutex's queue, or gives back a permit it was handed and never
\* polled for), or at the .await of the database call before the statement
\* ran.  The handler's locals go with the future, no response is built, and
\* the task is idle again.
CancelLeakLock(t) ==
    /\ pc[t] \in { "lock", "stmt" }
    /\ pc' = [pc EXCEPT ![t] = "idle"]
    /\ req' = [req EXCEPT ![t] = NoReq]
    /\ lock' = IF pc[t] = "lock" /\ lock = NoTask THEN t ELSE lock
    /\ UNCHANGED << backend, entries, generated, ret, resp,
                    created, ncreated, taken, rendered, schemed >>

Cancel(t) ==
    /\ pc[t] \in { "lock", "stmt" }
    /\ pc' = [pc EXCEPT ![t] = "idle"]
    /\ req' = [req EXCEPT ![t] = NoReq]
    /\ UNCHANGED << backend, entries, lock, generated, ret, resp,
                    created, ncreated, taken, rendered, schemed >>

NextAbort == Next \/ \E t \in Tasks : Cancel(t)

SpecAbort == Init /\ [][NextAbort]_vars
\* ------------------------------------------------- the highlighter alone
\* The characters a content is made of: a letter, a line feed, and the
\* characters escape sequences are written with.
Chars == { "a", LF, ESC, "[", "0", "m" }

AllContents == UNION { [1 .. n -> Chars] : n \in 0 .. MaxLen }

SyntaxHints == { "rs", "txt", "zz" }
Themes == { OceanDark, "no-such-theme" }

\* The backend's get on the store m
StoreGet(m, id) ==
    IF backend = "mock" THEN MockPasteStore_get(m, id) ELSE PgPool_get(m, id)

\* One call highlight(content, syntax, theme), and the answer
\* retrieve_highlighted builds from a paste of that content.
HighlightCall ==
    /\ ~rendered.called
    /\ \E content \in AllContents, syntax \in SyntaxHints, theme \in Themes :
        \E fails \in SUBSET (1 .. Len(LinesWithEndings(content))) :
            rendered' =
                [called |-> TRUE, content |-> content, syntax |-> syntax,
                 theme |-> theme, fails |-> fails,
                 out |-> highlight(content, syntax, theme, fails),
                 resp |-> retrieve_highlighted_response(
                              Ok(Some(Paste(1, content))), syntax, fails)]
    /\ UNCHANGED << backend, entries, lock, generated, pc, req, ret, resp,
                    created, ncreated, taken, schemed >>

SpecHighlight == Init /\ [][HighlightCall]_vars

\* ------------------------------------------------------- the scheme alone
\* Host texts: what may stand before and after, around a marker, a text
\* close to a marker, or nothing.
HostHeads == { << >>, <<"a", ".">>, <<"1">>, <<"l">>, <<"1","2","7",".","0",".">> }
HostCores ==
    { << >>, Loopback, Localhost,
      <<"1","2","7",".","0",".","0",".","2">>,
      <<"1","2","7",".","0",".","0",".">>,
      <<"1","2","7","0","0","1">>,
      <<"0",".","0",".","1">>,
      <<"l","o","c","a","l","h","o","s">>,
      <<"o","c","a","l","h","o","s","t">>,
      <<"L","o","c","a","l","h","o","s","t">>,
      <<"l","o","c","a","l",".","h","o","s","t">>,
      <<"p",".","i","o">> }
HostTails == { << >>, <<":","8","0">>, <<"t">>, <<"0",".","1">>, <<".","i","o">> }

AllHosts ==
    { h \o c \o t : h \in HostHeads, c \in HostCores, t \in HostTails }

\* One call scheme(host), and its answer.
SchemeCall ==
    /\ ~schemed.called
    /\ \E host \in AllHosts :
        schemed' = [called |-> TRUE, host |-> host, out |-> scheme(host)]
    /\ UNCHANGED << backend, entries, lock, generated, pc, req, ret, resp,
                    created, ncreated, taken, rendered >>

SpecScheme == Init /\ [][SchemeCall]_vars
\* ----------------------------------------------------------------- steps
\* The store call of task t returns in this step.
StoreReturns(t) == pc[t] \in { "locked", "stmt" } /\ pc'[t] = "respond"

GetReturns(t) ==
    StoreReturns(t) /\ req[t].op \in { "retrieve", "retrieve_highlighted" }

RemoveReturns(t) == StoreReturns(t) /\ req[t].op = "remove"

\* The handler of task t answers in this step.
Responds(t, op) == pc[t] = "respond" /\ req[t].op = op /\ pc'[t] = "done"

AtRespond(t, ops) == pc[t] = "respond" /\ req[t].op \in ops

GetOps == { "retrieve", "retrieve_highlighted" }

\* -------------------------------------------------------------- properties

\* C1: round trip.  When a create called with content C has returned id i
\* and no remove has taken i, a get(i) that the backend answers returns a
\* present Paste with id i and content exactly C, whatever else ran before.
C1_RoundTrip ==
    [][\A t \in Tasks :
        LET i == req[t].id IN
            (GetReturns(t) /\ ret'[t].ok /\ created[i] # None /\ taken[i] = 0)
                => ret'[t].val = Some(Paste(i, created[i][1]))]_vars

\* A get returned the record of one id after another id was created and
\* removed.
C1_Witness ==
    \E t \in Tasks, j \in Ids :
        /\ AtRespond(t, GetOps) /\ ret[t].ok /\ ret[t].val # None
        /\ ret[t].val[1].content = created[req[t].id][1]
        /\ j # req[t].id /\ taken[j] = 1

\* C2: remove is atomic.  A remove(i) that the backend answers returns the
\* record exactly when i was created and no other remove has taken it, so
\* over any number of removes of i, concurrent or not, the record is
\* returned once and every other call returns absent.
C2_RemoveAtomic ==
    [][\A t \in Tasks :
        LET i == req[t].id IN
            (RemoveReturns(t) /\ ret'[t].ok)
                => /\ (ret'[t].val # None) <=> (created[i] # None /\ taken[i] = 0)
                   /\ taken'[i] <= 1]_vars

\* Two removes of the same live id overlapped: one holds the record, the
\* other absent.
C2_Witness ==
    \E t1 \in Tasks, t2 \in Tasks :
        /\ t1 # t2
        /\ AtRespond(t1, {"remove"}) /\ AtRespond(t2, {"remove"})
        /\ req[t1].id = req[t2].id
        /\ ret[t1].ok /\ ret[t1].val # None
        /\ ret[t2].ok /\ ret[t2].val = None

\* C3: deletion finality.  Once a remove has returned the record of i, i is
\* never live again, and every later get(i) and remove(i) the backend
\* answers returns absent, whatever creates follow.
C3_NoResurrection ==
    [][\A i \in Ids :
        taken[i] >= 1 =>
            /\ entries'[i] = None
            /\ \A t \in Tasks :
                ((GetReturns(t) \/ RemoveReturns(t)) /\ req[t].id = i /\ ret'[t].ok)
                    => ret'[t].val = None]_vars

\* After i was removed, another create stored an entry, and a get(i) still
\* returned absent.
C3_Witness ==
    \E t \in Tasks, j \in Ids :
        /\ AtRespond(t, GetOps) /\ ret[t].ok /\ ret[t].val = None
        /\ taken[req[t].id] = 1
        /\ j # req[t].id /\ entries[j] # None /\ Cardinality(generated) = MaxIds

\* C4: create never collides.  The ids of creates in flight differ from each
\* other and from every id stored so far; N creates that stored an entry
\* stored N distinct ids; every live entry holds the content of the create
\* that stored it; the live entries are the created ones less the removed.
C4_CreateNeverCollides ==
    /\ \A t1 \in Tasks, t2 \in Tasks :
        (/\ t1 # t2
         /\ pc[t1] \in { "lock", "locked" } /\ req[t1].op = "upload"
         /\ pc[t2] \in { "lock", "locked" } /\ req[t2].op = "upload")
            => req[t1].id # req[t2].id
    /\ \A t \in Tasks :
        (pc[t] \in { "lock", "locked" } /\ req[t].op = "upload")
            => entries[req[t].id] = None /\ created[req[t].id] = None
    /\ ncreated = Cardinality({ i \in Ids : created[i] # None })
    /\ \A i \in Live : entries[i] = created[i]
    /\ Cardinality(Live) + Cardinality({ i \in Ids : taken[i] >= 1 }) = ncreated

\* Two creates overlapped and returned two ids, each live with its content.
C4_Witness ==
    \E t1 \in Tasks, t2 \in Tasks :
        /\ t1 # t2
        /\ AtRespond(t1, {"upload"}) /\ AtRespond(t2, {"upload"})
        /\ ret[t1].ok /\ ret[t2].ok
        /\ ret[t1].val[1].id # ret[t2].val[1].id
        /\ ret[t1].val[1].content # ret[t2].val[1].content
        /\ entries[ret[t1].val[1].id] = Some(ret[t1].val[1].content)
        /\ entries[ret[t2].val[1].id] = Some(ret[t2].val[1].content)

\* C5: unknown id.  For an id no create has returned, a get and a remove
\* that the backend answers return absent; the in-memory backend always
\* answers.
C5_UnknownId ==
    [][\A t \in Tasks :
        ((GetReturns(t) \/ RemoveReturns(t)) /\ created[req[t].id] = None)
            => /\ backend = "mock" => ret'[t].ok
               /\ ret'[t].ok => ret'[t].val = None]_vars

\* A get and a remove of never-created ids both returned absent, while
\* another id was live.
C5_Witness ==
    \E t1 \in Tasks, t2 \in Tasks :
        /\ AtRespond(t1, GetOps) /\ AtRespond(t2, {"remove"})
        /\ created[req[t1].id] = None /\ created[req[t2].id] = None
        /\ ret[t1].ok /\ ret[t1].val = None
        /\ ret[t2].ok /\ ret[t2].val = None

\* C6: the create handler.  With body B and host H, when create succeeded
\* with id i, the response is 201 with body scheme(H) "://" H "/" i, i is
\* the id B was stored under, and while i is not removed a GET of that
\* URL's path answers 200 with body B.
C6_UploadResponse ==
    [][\A t \in Tasks :
        (Responds(t, "upload") /\ ret[t].ok) =>
            LET i == ret[t].val[1].id
                H == req[t].host
                B == req[t].body
                url == scheme(H) \o <<":", "/", "/">> \o H \o <<"/", UuidDisplay(i)>>
            IN /\ resp'[t] = Response(StatusCreated, url)
               /\ created[i] = Some(B)
               /\ PathIds(UriPath(resp'[t].body)) = {i}
               /\ taken[i] = 0 =>
                    retrieve_response(StoreGet(entries', i)) = Response(StatusOK, B)]_vars

\* An upload answered 201 for a loopback host.
C6_Witness ==
    \E t \in Tasks :
        /\ pc[t] = "done" /\ resp[t].status = StatusCreated
        /\ SubSeq(resp[t].body, 1, 4) = Http /\ resp[t].body[5] = ":"

\* C7: the retrieve handler answers 200 with the stored content when the id
\* was live, and 404 with the body "Paste not found" when it was absent.
C7_RetrieveResponse ==
    [][\A t \in Tasks :
        (Responds(t, "retrieve") /\ ret[t].ok) =>
            resp'[t] = IF ret[t].val # None
                       THEN Response(StatusOK, ret[t].val[1].content)
                       ELSE Response(StatusNotFound, <<"Paste not found">>)]_vars

\* C8: the delete handler answers 200 with the body "Deleted!" when the id
\* was live (and it is then not live), and 404 with the body
\* "Paste not found" when it was absent.
C8_RemoveResponse ==
    [][\A t \in Tasks :
        (Responds(t, "remove") /\ ret[t].ok) =>
            resp'[t] = IF ret[t].val # None
                       THEN Response(StatusOK, <<"Deleted!">>)
                       ELSE Response(StatusNotFound, <<"Paste not found">>)]_vars

\* C9: highlighting fallback.  GET /<id>/<lang> on a live id with a lang no
\* syntax is loaded for answers 200 with the stored content unchanged, no
\* escape sequence added.
C9_HighlightFallback ==
    [][\A t \in Tasks :
        (/\ Responds(t, "retrieve_highlighted")
         /\ ret[t].ok /\ ret[t].val # None
         /\ find_syntax_by_extension(req[t].lang) = None)
            => resp'[t] = Response(StatusOK, ret[t].val[1].content)]_vars

\* C10 as stated: for every content, hint and theme, removing the escape
\* sequences from highlight's result yields exactly the content.
C10_StripIsContent ==
    rendered.called => strip_str(rendered.out) = rendered.content

HasEsc(s) == \E k \in 1 .. Len(s) : s[k] = ESC

\* C10 as amended: for every content with no escape character in it, every
\* hint and theme, and whichever lines fail to highlight, removing the
\* escape sequences from highlight's result yields exactly the content, and
\* retrieve_highlighted on a paste of that content answers 200 with a body
\* whose stripped text is the content.
C10_StripIsContentNoEsc ==
    (rendered.called /\ ~HasEsc(rendered.content)) =>
        /\ strip_str(rendered.out) = rendered.content
        /\ rendered.resp.status = StatusOK
        /\ strip_str(rendered.resp.body) = rendered.content

\* A content of two lines, free of escapes, was highlighted as Rust: the
\* result differs from the content and one line failed.
C10_Witness ==
    /\ rendered.called /\ ~HasEsc(rendered.content)
    /\ rendered.syntax = "rs" /\ rendered.theme = OceanDark
    /\ Len(LinesWithEndings(rendered.content)) = 2
    /\ rendered.fails = {1}
    /\ rendered.out # rendered.content

\* C11: storage failure is propagated.  When the store call of a handler
\* (upload, retrieve, retrieve_highlighted, remove) returned an error, the
\* handler's next step is its answer, with status 500: it does not call
\* the store again, and it never answers 200, 201 or 404.
C11_StorageFailure ==
    [][\A t \in Tasks :
        (pc[t] = "respond" /\ ~ret[t].ok) =>
            /\ pc'[t] \in { "respond", "done" }
            /\ pc'[t] = "done" =>
                /\ resp'[t].status = StatusInternalServerError
                /\ entries' = entries]_vars

\* One handler answered 500 and the other holds a store error of a remove.
C11_Witness ==
    \E t1 \in Tasks, t2 \in Tasks :
        /\ pc[t1] = "done" /\ resp[t1].status = StatusInternalServerError
        /\ AtRespond(t2, {"remove"}) /\ ~ret[t2].ok

\* pat stands in s from position k on, character by character
OccursAt(s, pat, k) ==
    /\ k + Len(pat) - 1 <= Len(s)
    /\ \A j \in 1 .. Len(pat) : s[k + j - 1] = pat[j]

\* C12: scheme selection.  For every host text, the empty one included,
\* scheme(host) has a value; it is "http" exactly when "127.0.0.1" or
\* "localhost" stands somewhere in the host, and "https" otherwise, whatever
\* the backend and the store hold.
C12_Scheme ==
    schemed.called =>
        LET marked ==
                \E k \in 1 .. Len(schemed.host) :
                    \/ OccursAt(schemed.host, <<"1","2","7",".","0",".","0",".","1">>, k)
                    \/ OccursAt(schemed.host, <<"l","o","c","a","l","h","o","s","t">>, k)
        IN /\ schemed.out \in { <<"h","t","t","p">>, <<"h","t","t","p","s">> }
           /\ schemed.out = <<"h","t","t","p">> <=> marked

\* scheme answered "http" for a host with "127.0.0.1" inside it, text before
\* and after, and no "localhost".
C12_Witness ==
    /\ schemed.called /\ schemed.out = Http
    /\ schemed.host = <<"a", ".">> \o Loopback \o <<":","8","0">>

\* C13: failure responses are fixed strings.  Two failing answers of the
\* same kind (both 404, or both 500) have the same body, whatever the
\* backend reported, and no failing answer carries the backend's error
\* detail in its body.
C13_FixedFailureBodies ==
    \A t1 \in Tasks, t2 \in Tasks :
        (/\ pc[t1] = "done" /\ pc[t2] = "done"
         /\ resp[t1].status \in { StatusNotFound, StatusInternalServerError }
         /\ resp[t2].status = resp[t1].status)
            => /\ resp[t1].body = resp[t2].body
               /\ \A e \in Errors : ~Contains(resp[t1].body, <<e>>)

\* Task t takes a step of the handler of one of ops (from the call's start
\* to the answer).
StepOf(t, ops) ==
    /\ pc'[t] # pc[t]
    /\ req[t].op \in ops \/ req'[t].op \in ops

\* C14: get is read-only.  No step of a retrieve or retrieve_highlighted
\* handler, the store's get included, changes any entry of the store,
\* whether the id is live or absent and whatever the other task is doing.
C14_GetReadOnly ==
    [][\A t \in Tasks : StepOf(t, GetOps) => entries' = entries]_vars

\* A get returned the record of a live id, the entry is still there, and a
\* remove of the same id by the other task is in flight.
C14_Witness ==
    \E t1 \in Tasks, t2 \in Tasks :
        /\ AtRespond(t1, GetOps) /\ ret[t1].ok /\ ret[t1].val # None
        /\ entries[req[t1].id] = Some(ret[t1].val[1].content)
        /\ pc[t2] \in { "lock", "locked", "stmt" }
        /\ req[t2].op = "remove" /\ req[t2].id = req[t1].id

\* C15: remove changes only its own key.  The store's remove(i) on an id
\* that is not live leaves every entry as it was; on a live id it leaves i
\* not live and every other entry, id and content, as it was.  A failed
\* remove changes nothing.
C15_RemoveFrame ==
    [][\A t \in Tasks :
        RemoveReturns(t) =>
            LET i == req[t].id IN
                /\ entries[i] = None => entries' = entries
                /\ (entries[i] # None /\ ret'[t].ok) =>
                        entries' = [entries EXCEPT ![i] = None]
                /\ ~ret'[t].ok => entries' = entries
                /\ \A j \in Ids \ {i} : entries'[j] = entries[j]]_vars

\* A remove returned the record of a live id while another entry is live,
\* and a second remove by the other task returned absent with that entry
\* still live.
C15_Witness ==
    \E t1 \in Tasks, t2 \in Tasks, j \in Ids :
        /\ AtRespond(t1, {"remove"}) /\ ret[t1].ok /\ ret[t1].val # None
        /\ AtRespond(t2, {"remove"}) /\ ret[t2].ok /\ ret[t2].val = None
        /\ j # req[t1].id /\ entries[j] # None /\ entries[req[t1].id] = None

\* C16: remove returns what was created.  When remove(i) returns a record,
\* the record has id i and the content given to the create that returned
\* i, which is the entry the store held just before, whatever ran between
\* that create and this remove.
C16_RemoveReturnsCreated ==
    [][\A t \in Tasks :
        (RemoveReturns(t) /\ ret'[t].ok /\ ret'[t].val # None) =>
            LET i == req[t].id IN
                /\ created[i] # None
                /\ ret'[t].val = Some(Paste(i, created[i][1]))
                /\ entries[i] = Some(ret'[t].val[1].content)]_vars

\* A remove returned the record of i with the content i was created with,
\* after another id was created with another content and is still live.
C16_Witness ==
    \E t \in Tasks, j \in Ids :
        /\ AtRespond(t, {"remove"}) /\ ret[t].ok /\ ret[t].val # None
        /\ ret[t].val[1] = Paste(req[t].id, created[req[t].id][1])
        /\ j # req[t].id /\ entries[j] # None
        /\ created[j] # created[req[t].id]

\* C17: handlers branch only on presence.  A get or remove that succeeds
\* returns a record exactly when the id was live at the store call, and the
\* retrieve, retrieve_highlighted and remove handlers then answer 200
\* exactly when a record was returned and 404 otherwise; for
\* retrieve_highlighted the status is the same for every language hint and
\* whichever lines fail to highlight.
C17_BranchOnPresence ==
    [][\A t \in Tasks :
        /\ ((GetReturns(t) \/ RemoveReturns(t)) /\ ret'[t].ok)
                => (ret'[t].val # None <=> entries[req[t].id] # None)
        /\ \A op \in { "retrieve", "retrieve_highlighted", "remove" } :
            (Responds(t, op) /\ ret[t].ok) =>
                LET status == IF ret[t].val # None THEN StatusOK
                              ELSE StatusNotFound
                IN /\ resp'[t].status = status
                   /\ \A lang \in Langs, fails \in SUBSET (1 .. NumLines(ret[t])) :
                        retrieve_highlighted_response(ret[t], lang, fails).status
                            = status]_vars

\* One handler answered 404 and the other answered 200 with a highlighted
\* body.
C17_Witness ==
    \E t1 \in Tasks, t2 \in Tasks :
        /\ pc[t1] = "done" /\ resp[t1].status = StatusNotFound
        /\ pc[t2] = "done" /\ resp[t2].status = StatusOK
        /\ HasEsc(resp[t2].body)

RECURSIVE Join(_)
Join(pieces) ==
    IF pieces = << >> THEN << >> ELSE Head(pieces) \o Join(Tail(pieces))

\* C18: a failing line is not fatal.  The result of highlight is, line by
\* line and in order, the line itself where highlighting it failed and the
\* escaped line followed by the reset where it succeeded, so a failure
\* neither drops the line nor stops the lines after it; retrieve_highlighted
\* still answers 200 with that result; and with a theme name that is not
\* loaded every colour written is the default theme's.
C18_LineFailureNotFatal ==
    rendered.called =>
        LET lines == LinesWithEndings(rendered.content)
            syn == IF rendered.syntax = "rs" THEN RustSyntax ELSE PlainText
            th == IF rendered.theme = OceanDark THEN OceanDark ELSE DefaultTheme
            piece(i) == IF i \in rendered.fails THEN lines[i]
                        ELSE escape(highlight_line(syn, th, lines[i])) \o Reset
        IN /\ rendered.out = Join([i \in 1 .. Len(lines) |-> piece(i)])
           /\ Len(rendered.out) >= Len(rendered.content)
           /\ rendered.resp.status = StatusOK
           /\ rendered.resp.body =
                Join([i \in 1 .. Len(lines) |->
                        IF i \in rendered.fails THEN lines[i]
                        ELSE escape(highlight_line(syn, OceanDark, lines[i]))
                             \o Reset])
           /\ rendered.theme # OceanDark =>
                \A k \in 1 .. Len(rendered.out) :
                    rendered.out[k] \in ColourParams => rendered.out[k] = FgBlack

\* With a theme that is not loaded, the first of two lines failed: it is in
\* the result as it was, and the second line is highlighted after it.
C18_Witness ==
    /\ rendered.called /\ rendered.theme # OceanDark
    /\ rendered.content = <<"a", LF, "a">> /\ rendered.fails = {1}
    /\ SubSeq(rendered.out, 1, 3) = <<"a", LF, ESC>>
    /\ rendered.resp.status = StatusOK

\* C19: lock scope of the in-memory backend.  The lock is held only by a
\* task inside a store call, between acquiring it and the single map
\* operation: a task that is highlighting or building its answer, has
\* answered, is idle or still waits for the lock does not hold it, and the
\* database backend never takes it.
C19_LockScope ==
    /\ \A t \in Tasks :
        /\ lock = t =>
            /\ pc[t] = "locked"
            /\ req[t].op \in { "upload", "retrieve", "retrieve_highlighted", "remove" }
        /\ pc[t] \in { "idle", "lock", "stmt", "respond", "done" } => lock # t
        /\ pc[t] = "locked" => lock = t
    /\ backend = "pg" => lock = NoTask
    /\ lock \in Tasks \cup { NoTask }

\* One task holds the lock inside a store call while the other, back from
\* its get with a record, is about to highlight it.
C19_Witness ==
    \E t1 \in Tasks, t2 \in Tasks :
        /\ lock = t1 /\ pc[t1] = "locked"
        /\ AtRespond(t2, {"retrieve_highlighted"})
        /\ ret[t2].ok /\ ret[t2].val # None

\* The store a sequential run of the calls that took effect so far would
\* hold: each created id with its content, less the ids a remove took.
SeqStore ==
    [i \in Ids |-> IF created[i] # None /\ taken[i] = 0 THEN created[i] ELSE None]

\* The record of i as its create returned it
Original(i) == IF created[i] = None THEN None ELSE Some(Paste(i, created[i][1]))

\* Task u is inside a store call remove(i), or has its result in hand.
RemoveInFlight(u, i) ==
    /\ pc[u] \in { "lock", "locked", "stmt", "respond" }
    /\ req[u].op = "remove" /\ req[u].id = i

\* C20: get/remove race.  Every store call that succeeds takes effect in
\* one step between its start and its return, and returns what the
\* sequential store gives at that step: a get(i) returns the whole record
\* as created or absent, also while a remove(i) is in flight; a remove(i)
\* returns the record when i is there and takes it, so at most once; a
\* get(i) after a remove took i returns absent; a create adds its fresh id.
\* The store always equals the sequential store, so the calls in the order
\* of these steps are a sequential history with the same results.
C20_GetRemoveRace ==
    [][LET before == SeqStore
           after == SeqStore'
       IN /\ entries = before
          /\ \A t \in Tasks :
                IF ~StoreReturns(t) THEN pc'[t] # pc[t] => after = before
                ELSE IF ~ret'[t].ok THEN after = before
                ELSE LET i == req[t].id
                         found == IF before[i] = None THEN None
                                  ELSE Some(Paste(i, before[i][1]))
                     IN CASE req[t].op \in GetOps ->
                                /\ ret'[t].val = found
                                /\ ret'[t].val \in { None, Original(i) }
                                /\ taken[i] >= 1 => ret'[t].val = None
                                /\ after = before
                          [] req[t].op = "remove" ->
                                /\ ret'[t].val = found
                                /\ after = [before EXCEPT ![i] = None]
                                /\ taken'[i] <= 1
                          [] req[t].op = "upload" ->
                                LET n == ret'[t].val[1].id IN
                                    /\ created[n] = None
                                    /\ ret'[t].val = Some(Paste(n, req[t].body))
                                    /\ after = [before EXCEPT
                                                    ![n] = Some(req[t].body)]]_vars

\* A get(i) and a remove(i) are both back from the store with the whole
\* record of i: the get took effect first, and i is gone.
C20_Witness ==
    \E t1 \in Tasks, t2 \in Tasks :
        LET i == req[t1].id IN
            /\ AtRespond(t1, GetOps) /\ RemoveInFlight(t2, i) /\ pc[t2] = "respond"
            /\ ret[t1].ok /\ ret[t1].val # None /\ ret[t1].val = Original(i)
            /\ ret[t2].ok /\ ret[t2].val = ret[t1].val
            /\ entries[i] = None /\ taken[i] = 1

\* Task t's request is dropped in this step.
Aborts(t) == pc[t] \in { "lock", "stmt" } /\ pc'[t] = "idle"

\* C21: abort safety.  A request dropped while it waits for the lock or for
\* the database, before its store call took effect, has changed nothing:
\* from its start to the drop no step of it touches an entry, the drop
\* itself leaves every entry and the record of created and removed ids as
\* they were and leaves the lock with whoever held it, never with the
\* dropped task; each entry is whole (absent or the content of its create),
\* and the task is free for the next request.
C21_AbortSafety ==
    [][\A t \in Tasks :
        /\ (/\ pc'[t] # pc[t]
            /\ Free(t) \/ pc[t] \in { "lock", "stmt" }
            /\ pc'[t] \in { "lock", "locked", "stmt", "idle" })
                => entries' = entries
        /\ Aborts(t) =>
            /\ << entries, created, ncreated, taken >>' =
                    << entries, created, ncreated, taken >>
            /\ lock' = lock /\ lock' # t
            /\ \A i \in Ids : entries'[i] \in { None, created[i] }
            /\ Free(t)']_vars

\* A create was dropped while it waited for the lock the other task held:
\* its id was drawn and is in no entry, the holder is still inside its call.
C21_Witness ==
    \E t1 \in Tasks, t2 \in Tasks, i \in generated :
        /\ pc[t1] = "idle" /\ lock = t2 /\ pc[t2] = "locked"
        /\ created[i] = None /\ entries[i] = None
        /\ \A t \in Tasks : req[t].id # i
        /\ Live # {}

\* C22: store state invariant.  The live ids are the ids creates returned
\* less the ids whose record a remove returned, each with the content its
\* create was given; only the step in which a store call takes effect
\* changes an entry (a handler's start, wait, highlighting and answer do
\* not); and an entry, once there, keeps its content until it is removed.
C22_StoreInvariant ==
    [][/\ \A i \in Ids :
            /\ entries[i] # None <=> (created[i] # None /\ taken[i] = 0)
            /\ entries[i] # None =>
                /\ entries[i] = created[i]
                /\ entries'[i] \in { None, entries[i] }
            /\ created[i] # None => created'[i] = created[i]
            /\ taken'[i] >= taken[i]
       /\ entries' = entries \/ \E t \in Tasks : StoreReturns(t)]_vars

\* One id was created and removed, another is live with its content, and
\* both handlers have answered, one of them with a highlighted body.
C22_Witness ==
    \E i \in Ids, j \in Ids, t \in Tasks :
        /\ Live = {i} /\ entries[i] = created[i]
        /\ taken[j] = 1 /\ created[j] # None /\ entries[j] = None
        /\ \A u \in Tasks : pc[u] = "done"
        /\ resp[t].status = StatusOK /\ HasEsc(resp[t].body)

\* C23: no deadlock and eventual completion on the in-memory backend.
\* Some task can always take a step (not every task waits for a held
\* lock); a task takes the lock only as a waiter of its store call and,
\* once the call returned, only answers, so a call acquires the lock at
\* most once; and under a fair scheduler and a fair lock every store call
\* that started waiting acquires the lock, and every holder completes its
\* call and has released the lock.
C23_EventualCompletion ==
    /\ [](\E t \in Tasks : pc[t] # "lock" \/ lock = NoTask)
    /\ [][\A t \in Tasks :
            /\ (lock' = t /\ lock # t) => (pc[t] = "lock" /\ pc'[t] = "locked")
            /\ pc[t] = "respond" => pc'[t] \in { "respond", "done" }]_vars
    /\ \A t \in Tasks :
        /\ (pc[t] = "lock") ~> (pc[t] = "locked" /\ lock = t)
        /\ (pc[t] = "locked") ~> (pc[t] = "respond" /\ lock # t /\ ret[t].ok)

\* Both tasks are in store calls at once: one holds the lock, the other
\* waits for it, and the store is not empty.
C23_Witness ==
    \E t1 \in Tasks, t2 \in Tasks :
        /\ backend = "mock" /\ pc[t1] = "locked" /\ lock = t1
        /\ pc[t2] = "lock" /\ req[t2].op = "remove"
        /\ entries[req[t2].id] # None

=============================================================================
